---------------------------- MODULE Spec2Model ----------------------------
(***************************************************************************)
(* Model of the plane-claude-orchestrator ticket lifecycle engine:         *)
(*   src/plane-claude-orchestrator/src/api.py     (queues, HTTP handlers)  *)
(*   src/plane-claude-orchestrator/src/daemon.py  (poll / completion loop) *)
(*   src/plane-claude-orchestrator/src/plane_client.py (retrying writes)   *)
(*   src/plane-claude-orchestrator/src/tmux_client.py  (create_session)    *)
(*                                                                         *)
(* Scheduling is asyncio's: a coroutine runs without interruption between  *)
(* two awaits, so every action below is the code between two suspension    *)
(* points of one handler or loop.                                          *)
(***************************************************************************)
EXTENDS Integers, Sequences, FiniteSets, Bags, TLC

\* ------------------------------------------------------------------ bounds
\* The wall clock, in seconds; it stops advancing at MaxClock.
MaxClock == 1
\* HTTP handler coroutines that may be suspended in an await at one time.
MaxInFlight == 2
\* Longest list poll_for_triggers returns in one poll.
MaxTrig == 2

\* The values of an issue's updated_at are 0..MaxStamp.
MaxStamp == 1
\* SIGINT and SIGTERM deliveries, each of which creates a task of stop().
MaxSignals == 1
\* The length of config.plane.project_ids.
MaxProjects == 2

\* Field(default=30) of PlaneConfig.poll_interval.
DefaultPollInterval == 30
\* asyncio.sleep(10) of the except branch of _poll_plane_loop.
BackoffDelay == 10
\* The configured values of poll_interval: below the delay of the except
\* branch, equal to it, and the default.
PollIntervals == {BackoffDelay - 1, BackoffDelay, DefaultPollInterval}

\* stop_after_attempt(3) of the tenacity decorator of the write operations.
MaxAttempts == 3

Tickets == {"T1"}
\* The payload of a ticket (title, description, trigger_type, ...).
Data == {"d1", "d2"}
\* Contents of a completion file; "" is the empty file.
Contents == {"", " ", "s1"}
\* Summaries passed to mark_completed.
Summaries == {"s1", "s2"}
NoFile == "<absent>"
\* What one attempt of a write operation meets: a response by status class, a
\* network error (aiohttp.ClientError), a connect or read timeout
\* (aiohttp.ServerTimeoutError, a ClientError) or the expiry of the session's
\* total timeout (asyncio.TimeoutError, which is no ClientError).
Responses == {"2xx", "4xx", "5xx", "neterr", "timeout", "total_timeout"}
\* The failures the specification calls transient.
Transient == {"5xx", "neterr", "timeout", "total_timeout"}

\* The workflow states of the tracker (the "state" of an issue is the id of
\* one) and the groups state_detail reports; "" is a missing state_detail.
States == {"st1", "st2"}
Groups == {"backlog", "unstarted", "Started", "completed", ""}
Issues == [state : States, group : Groups, updated_at : 0..MaxStamp]
NoTrigger == "None"

VARIABLES
    pending_tickets,    \* OrchestratorAPI.pending_tickets   : id -> ticket
    active_sessions,    \* OrchestratorAPI.active_sessions   : id -> ticket
    completed_tickets,  \* OrchestratorAPI.completed_tickets : id -> ticket
    clock,              \* datetime.now(), in ticks
    inflight,           \* bag of handler coroutines suspended in an await
    files,              \* /tmp/completion-<id>.txt : content or NoFile
    created,            \* history, kept when Init starts it (InitStay):
                        \* id -> session ids the service created for approve
                        \* calls of the id's current stay in Pending
    leftover,           \* history, kept when Init starts it (InitWatch):
                        \* the ids whose completion file a tick has read and
                        \* failed to delete
    predates,           \* history, kept when Init starts it (InitWatch):
                        \* the ids whose completion file was there when
                        \* their Active entry was written
    last,               \* the step just taken and the outcome the caller got
    issues,             \* the tracker: id -> the issue list_project_issues
                        \* returns for it
    _last_poll_state,   \* PlaneClient._last_poll_state : id -> snapshot
    triggered_tickets,  \* what the latest poll_for_triggers() returned
    observed,           \* history: id -> the issue as the latest
                        \* poll_for_triggers() saw it, for the ids it listed
    running,            \* PlaneClaudeOrchestrator.running
    _poll_task,         \* the task of _poll_plane_loop and where it stands
    _completion_task,   \* the task of _poll_completion_loop and where it stands
    must_cancel,        \* the tasks cancel() was called on whose
                        \* CancelledError is still to be delivered
    stop_calls,         \* the calls of stop(): where each stands
    _session,           \* the _session of tmux_client and of plane_client
    poll_interval,      \* config.plane.poll_interval, in seconds
    poll_sleep,         \* the delay of the asyncio.sleep the poll task is
                        \* in; 0 when it is in none
    poll_call           \* the poll_for_triggers() in progress: the project
                        \* whose listing it awaits and its triggered_tickets

queues == <<pending_tickets, active_sessions, completed_tickets>>
stays == <<created, leftover, predates>>
plane == <<issues, _last_poll_state, triggered_tickets, observed>>
loop == <<poll_interval, poll_sleep, poll_call>>
daemon == <<running, _poll_task, _completion_task, must_cancel, stop_calls,
            _session>>
vars == <<pending_tickets, active_sessions, completed_tickets, clock,
          inflight, files, created, leftover, predates, last, issues,
          _last_poll_state, triggered_tickets, observed, running, _poll_task,
          _completion_task, must_cancel, stop_calls, _session,
          poll_interval, poll_sleep, poll_call>>

\* ----------------------------------------------------------------- helpers
\* Python's {**t, k: v} and t[k] = v.
Put(t, k, v) == [x \in (DOMAIN t) \cup {k} |-> IF x = k THEN v ELSE t[x]]
\* Python's d[k] = v on a dict keyed by ticket id.
SetKey(d, k, v) == [x \in (DOMAIN d) \cup {k} |-> IF x = k THEN v ELSE d[x]]
\* Python's del d[k] (the caller has checked k in d).
DelKey(d, k) == [x \in (DOMAIN d) \ {k} |-> d[x]]
EmptyDict == [x \in {} |-> 0]

Queued(id) ==
    \/ id \in DOMAIN pending_tickets
    \/ id \in DOMAIN active_sessions
    \/ id \in DOMAIN completed_tickets

\* f"{session_prefix}{ticket_id}-{timestamp}", the timestamp being
\* datetime.now().strftime("%Y%m%d-%H%M%S"): the ticket id and the second.
SessionId(id, now) == <<id, now>>

Suspend(r) == inflight (+) SetToBag({r})
Resume(r) == inflight (-) SetToBag({r})
Suspended == BagCardinality(inflight)

Event(op, id, outcome, detail) ==
    [op |-> op, id |-> id, outcome |-> outcome, detail |-> detail]
EnvStep == Event("env", "-", "-", "-")


\* The histories of the completion files (leftover, predates) are kept in
\* the behaviours that start with them empty; elsewhere they are NotFollowed.
NotFollowed == {"<off>"}

\* ------------------------------------------- stays in Pending (bookkeeping)
\* A stay of an id in Pending starts when the id enters pending_tickets.  The
\* approve calls still suspended from an earlier stay are marked stale, and
\* the per-stay records start afresh.  The history is kept in the behaviours
\* that start with a record for every ticket; it is read by no handler.
Tracking == DOMAIN created # {}
StaleOf(r, S) ==
    IF r.kind = "approve" /\ r.id \in S THEN [r EXCEPT !.stale = TRUE] ELSE r
Copies(b, r) == IF r \in DOMAIN b THEN b[r] ELSE 0
MarkStale(b, S) ==
    IF ~Tracking THEN b
    ELSE [s \in {StaleOf(r, S) : r \in DOMAIN b} |->
            IF s.kind = "approve" /\ s.id \in S
            THEN Copies(b, s) + Copies(b, [s EXCEPT !.stale = FALSE])
            ELSE b[s]]
Entered(p2) == (DOMAIN p2) \ (DOMAIN pending_tickets)
StayCreated(p2) ==
    IF ~Tracking THEN created
    ELSE [id \in Tickets |-> IF id \in Entered(p2) THEN {} ELSE created[id]]

\* --------------------------------------------------------------- admission
\* api.py add_pending_ticket: self.pending_tickets[ticket_id] = ticket
AddPending(p, id, t) == SetKey(p, id, t)

\* POST /api/test/add-ticket: model_dump() and add_pending_ticket.
AddTestTicket(id, d) ==
    LET p2 == AddPending(pending_tickets, id, [data |-> d]) IN
    /\ pending_tickets' = p2
    /\ created' = StayCreated(p2)
    /\ UNCHANGED <<leftover, predates>>
    /\ inflight' = MarkStale(inflight, Entered(p2))
    /\ last' = Event("add_ticket", id, "ok", "-")
    /\ UNCHANGED <<active_sessions, completed_tickets, clock, files, plane, loop, daemon>>

\* daemon.py _poll_plane_loop, the for loop over triggered_tickets: one that
\* is in any queue is skipped, the others go through add_pending_ticket.
\* Mutant: the admission loop without its "Skip if already in queue".
RECURSIVE AdmitAll_NoGuard(_, _)
AdmitAll_NoGuard(trig, p) ==
    IF trig = <<>> THEN p
    ELSE LET t == Head(trig) IN
         AdmitAll_NoGuard(Tail(trig), AddPending(p, t.id, [data |-> t.data]))

RECURSIVE AdmitAll(_, _)
AdmitAll(trig, p) ==
    IF trig = <<>> THEN p
    ELSE LET t == Head(trig) IN
         AdmitAll(Tail(trig),
                  IF \/ t.id \in DOMAIN p
                     \/ t.id \in DOMAIN active_sessions
                     \/ t.id \in DOMAIN completed_tickets
                  THEN p
                  ELSE AddPending(p, t.id, [data |-> t.data]))

Triggered == [id : Tickets, data : Data]
TriggerLists == UNION {[1..n -> Triggered] : n \in 0..MaxTrig}

\* The admission loop over the list trig that poll_for_triggers() returned.
Admission(trig) ==
    LET p2 == AdmitAll(trig, pending_tickets) IN
    /\ pending_tickets' = p2
    /\ created' = StayCreated(p2)
    /\ UNCHANGED <<leftover, predates>>
    /\ inflight' = MarkStale(inflight, Entered(p2))

\* One iteration of _poll_plane_loop whose poll_for_triggers() returned trig:
\* the admission loop runs, the loop sleeps poll_interval and calls
\* poll_for_triggers() again.
PollReturn(trig) ==
    /\ _poll_task = "polling"
    /\ Admission(trig)
    /\ last' = Event("poll", "-", "ok", "-")
    /\ UNCHANGED <<active_sessions, completed_tickets, clock, files, plane, loop,
                   daemon>>

\* ------------------------------------------------------- trigger detection
\* str.lower() on the group names of Groups.
Lower(g) == IF g = "Started" THEN "started" ELSE g

\* Mutant: _check_trigger without the test of the state group.
CheckTrigger_NewAlways(snap, id, issue) ==
    IF id \notin DOMAIN snap
    THEN [trigger_type |-> "new_ticket",
          snap |-> SetKey(snap, id, [state |-> issue.state,
                                     updated_at |-> issue.updated_at])]
    ELSE IF issue.state # snap[id].state
    THEN [trigger_type |-> "status_change",
          snap |-> [snap EXCEPT ![id].state = issue.state]]
    ELSE IF issue.updated_at # snap[id].updated_at
    THEN [trigger_type |-> "comment_added",
          snap |-> [snap EXCEPT ![id].updated_at = issue.updated_at]]
    ELSE [trigger_type |-> NoTrigger, snap |-> snap]

\* Mutant: _check_trigger with the test of updated_at before that of state.
CheckTrigger_UpdatedFirst(snap, id, issue) ==
    IF id \notin DOMAIN snap
    THEN [trigger_type |-> IF Lower(issue.group) \in {"started", "unstarted"}
                           THEN "new_ticket" ELSE NoTrigger,
          snap |-> SetKey(snap, id, [state |-> issue.state,
                                     updated_at |-> issue.updated_at])]
    ELSE IF issue.updated_at # snap[id].updated_at
    THEN [trigger_type |-> "comment_added",
          snap |-> [snap EXCEPT ![id].updated_at = issue.updated_at]]
    ELSE IF issue.state # snap[id].state
    THEN [trigger_type |-> "status_change",
          snap |-> [snap EXCEPT ![id].state = issue.state]]
    ELSE [trigger_type |-> NoTrigger, snap |-> snap]

\* plane_client.py _check_trigger on _last_poll_state = snap: the trigger
\* type it returns (NoTrigger for None) and _last_poll_state afterwards.
CheckTrigger(snap, id, issue) ==
    IF id \notin DOMAIN snap
    THEN [trigger_type |-> IF Lower(issue.group) \in {"started", "unstarted"}
                           THEN "new_ticket" ELSE NoTrigger,
          snap |-> SetKey(snap, id, [state |-> issue.state,
                                     updated_at |-> issue.updated_at])]
    ELSE IF issue.state # snap[id].state
    THEN [trigger_type |-> "status_change",
          snap |-> [snap EXCEPT ![id].state = issue.state]]
    ELSE IF issue.updated_at # snap[id].updated_at
    THEN [trigger_type |-> "comment_added",
          snap |-> [snap EXCEPT ![id].updated_at = issue.updated_at]]
    ELSE [trigger_type |-> NoTrigger, snap |-> snap]

\* poll_for_triggers, the loop over the issues listed: _last_poll_state and
\* triggered_tickets afterwards.  The entry of a triggered ticket carries its
\* trigger_type as its payload.
RECURSIVE PollForTriggers(_, _, _)
PollForTriggers(listed, snap, trig) ==
    IF listed = <<>> THEN [snap |-> snap, triggered_tickets |-> trig]
    ELSE LET id == Head(listed)
             c == CheckTrigger(snap, id, issues[id])
         IN PollForTriggers(Tail(listed), c.snap,
                IF c.trigger_type = NoTrigger THEN trig
                ELSE Append(trig, [id |-> id, data |-> c.trigger_type]))

\* What list_project_issues may return: the issues of the tracker, each once
\* at most, or [] (also its answer to an error).
Listings ==
    {l \in UNION {[1..n -> DOMAIN issues] : n \in 0..Cardinality(DOMAIN issues)} :
        \A i, j \in DOMAIN l : l[i] = l[j] => i = j}

\* One iteration of _poll_plane_loop: poll_for_triggers over the issues
\* listed, the admission loop, then the sleep.
PollTriggers(listed) ==
    LET res == PollForTriggers(listed, _last_poll_state, <<>>)
        p2 == AdmitAll(res.triggered_tickets, pending_tickets)
    IN
    /\ _last_poll_state' = res.snap
    /\ triggered_tickets' = res.triggered_tickets
    /\ observed' = [id \in {listed[i] : i \in DOMAIN listed} |-> issues[id]]
    /\ pending_tickets' = p2
    /\ created' = StayCreated(p2)
    /\ UNCHANGED <<leftover, predates>>
    /\ inflight' = MarkStale(inflight, Entered(p2))
    /\ last' = Event("poll", "-", "ok", "-")
    /\ UNCHANGED <<active_sessions, completed_tickets, clock, files, issues,
                   loop, daemon>>

\* The tracker creates an issue or changes one (its state, its group, its
\* updated_at, which does not go back).
EditIssue(id, issue) ==
    /\ IF id \in DOMAIN issues
       THEN issues[id] # issue /\ issues[id].updated_at <= issue.updated_at
       ELSE TRUE
    /\ issues' = SetKey(issues, id, issue)
    /\ last' = EnvStep
    /\ UNCHANGED <<queues, clock, inflight, files, stays, _last_poll_state,
                   triggered_tickets, observed, loop, daemon>>

\* ----------------------------------------------------------------- approve
\* The 404 of approve_ticket.
ApproveNotFound(id) ==
    /\ id \notin DOMAIN pending_tickets
    /\ last' = Event("approve", id, "404", "-")
    /\ UNCHANGED <<queues, clock, inflight, files, stays, plane, loop, daemon>>

\* Mutant: approve_ticket without its membership check (the ticket read
\* with .get(ticket_id, {})).
ApproveCall_NoCheck(id) ==
    /\ Suspended < MaxInFlight
    /\ inflight' = Suspend([kind |-> "approve", id |-> id,
                            ticket |-> IF id \in DOMAIN pending_tickets
                                       THEN pending_tickets[id] ELSE EmptyDict,
                            session_id |-> SessionId(id, clock),
                            stale |-> FALSE])
    /\ last' = EnvStep
    /\ UNCHANGED <<queues, clock, files, stays, plane, loop, daemon>>

\* approve_ticket up to its await: the ticket and the session id are taken
\* now, and the coroutine is suspended in tmux_client.create_session.
ApproveCall(id) ==
    /\ id \in DOMAIN pending_tickets
    /\ Suspended < MaxInFlight
    /\ inflight' = Suspend([kind |-> "approve", id |-> id,
                            ticket |-> pending_tickets[id],
                            session_id |-> SessionId(id, clock),
                            stale |-> FALSE])
    /\ last' = EnvStep
    /\ UNCHANGED <<queues, clock, files, stays, plane, loop, daemon>>

\* Mutant: the Active entry without its "started_at".
ActiveEntry_NoStartedAt(r, now) ==
    Put(r.ticket, "session_id", r.session_id)

\* The Active entry approve_ticket writes after create_session returned.
ActiveEntry(r, now) ==
    Put(Put(r.ticket, "session_id", r.session_id), "started_at", now)

\* create_session returned: the rest of the try block.  The del raises
\* KeyError when the id has left pending_tickets meanwhile; the Active entry
\* is written by then, and except Exception answers 500.  answered is what
\* the session service had answered, "-" where that is not followed.
ApproveResumed(r, answered) ==
    /\ r \in DOMAIN inflight
    /\ r.kind = "approve"
    /\ inflight' = Resume(r)
    /\ active_sessions' = SetKey(active_sessions, r.id, ActiveEntry(r, clock))
    /\ IF r.id \in DOMAIN pending_tickets
       THEN /\ pending_tickets' = DelKey(pending_tickets, r.id)
            /\ last' = Event("approve", r.id, "ok", answered)
       ELSE /\ pending_tickets' = pending_tickets
            /\ last' = Event("approve", r.id, "500", "KeyError")
    /\ UNCHANGED leftover
    /\ predates' = IF predates = NotFollowed THEN predates
                   ELSE IF files[r.id] # NoFile THEN predates \cup {r.id}
                   ELSE predates \ {r.id}
    /\ created' = IF r.stale \/ ~Tracking THEN created
                  ELSE [created EXCEPT ![r.id] = @ \cup {r.session_id}]
    /\ UNCHANGED <<completed_tickets, clock, files, plane, loop, daemon>>

ApproveReturn(r) == ApproveResumed(r, "-")

\* Mutant: the except branch drops the ticket from pending_tickets.
ApproveRaise_DropsTicket(r) ==
    /\ r \in DOMAIN inflight
    /\ r.kind = "approve"
    /\ inflight' = Resume(r)
    /\ pending_tickets' = IF r.id \in DOMAIN pending_tickets
                          THEN DelKey(pending_tickets, r.id) ELSE pending_tickets
    /\ last' = Event("approve", r.id, "500", "create_session")
    /\ UNCHANGED <<active_sessions, completed_tickets, clock, files, stays, plane, loop, daemon>>

\* create_session raised (raise_for_status on a non-2xx, a network error):
\* except Exception answers 500.
ApproveRaise(r) ==
    /\ r \in DOMAIN inflight
    /\ r.kind = "approve"
    /\ inflight' = Resume(r)
    /\ last' = Event("approve", r.id, "500", "create_session")
    /\ UNCHANGED <<queues, clock, files, stays, plane, loop, daemon>>

\* What the session service answers to PUT /sessions/<id>: a status below 300,
\* from 300 to 399, from 400 to 499 or from 500 on, each with a JSON object
\* as its body; "badbody" is a status below 400 with another body; "neterr" is
\* a network error.
SessionResponses == {"2xx", "3xx", "4xx", "5xx", "badbody", "neterr"}

\* tmux_client.py create_session: response.raise_for_status() raises
\* ClientResponseError for a status of 400 and above, response.json() raises
\* for a body that is no JSON, data.get raises for one that is no object;
\* otherwise the session details are returned.
CreateSession(resp) ==
    IF resp \in {"4xx", "5xx", "neterr", "badbody"} THEN "raise" ELSE "return"

\* approve_ticket resumed by the answer of the session service.
ApproveAnswer(r, resp) ==
    IF CreateSession(resp) = "return"
    THEN ApproveResumed(r, resp)
    ELSE ApproveRaise(r)

\* ------------------------------------------------------------------ delete
\* Mutant: delete_ticket also looks in active_sessions.
DeleteTicket_AnyQueue(id) ==
    /\ pending_tickets' = IF id \in DOMAIN pending_tickets
                          THEN DelKey(pending_tickets, id) ELSE pending_tickets
    /\ active_sessions' = IF id \in DOMAIN active_sessions
                          THEN DelKey(active_sessions, id) ELSE active_sessions
    /\ completed_tickets' = IF id \in DOMAIN completed_tickets
                            THEN DelKey(completed_tickets, id)
                            ELSE completed_tickets
    /\ last' = Event("delete", id, IF Queued(id) THEN "ok" ELSE "404", "-")
    /\ UNCHANGED <<clock, inflight, files, stays, plane, loop, daemon>>

\* DELETE /api/tickets/{ticket_id}
DeleteTicket(id) ==
    /\ pending_tickets' = IF id \in DOMAIN pending_tickets
                          THEN DelKey(pending_tickets, id) ELSE pending_tickets
    /\ completed_tickets' = IF id \in DOMAIN completed_tickets
                            THEN DelKey(completed_tickets, id)
                            ELSE completed_tickets
    /\ last' = Event("delete", id,
                     IF id \in DOMAIN pending_tickets \/ id \in DOMAIN completed_tickets
                     THEN "ok" ELSE "404", "-")
    /\ UNCHANGED <<active_sessions, clock, inflight, files, stays, plane, loop, daemon>>

\* -------------------------------------------------------------- completion
\* Mutant: mark_ticket_completed without del self.active_sessions[ticket_id].
MarkTicketCompleted_KeepsActive(a, c, id, summary, now) ==
    IF id \in DOMAIN a
    THEN LET ticket == Put(Put(a[id], "summary", summary), "completed_at", now)
         IN <<a, SetKey(c, id, ticket)>>
    ELSE <<a, c>>

\* Mutant: mark_ticket_completed also rewrites an entry that is already in
\* completed_tickets.
MarkTicketCompleted_Rewrites(a, c, id, summary, now) ==
    IF id \in DOMAIN a
    THEN LET ticket == Put(Put(a[id], "summary", summary), "completed_at", now)
         IN <<DelKey(a, id), SetKey(c, id, ticket)>>
    ELSE IF id \in DOMAIN c
    THEN <<a, SetKey(c, id, Put(Put(c[id], "summary", summary), "completed_at", now))>>
    ELSE <<a, c>>

\* api.py mark_ticket_completed: <<active_sessions, completed_tickets>> after
\* the call.
MarkTicketCompleted(a, c, id, summary, now) ==
    IF id \in DOMAIN a
    THEN LET ticket == Put(Put(a[id], "summary", summary), "completed_at", now)
         IN <<DelKey(a, id), SetKey(c, id, ticket)>>
    ELSE <<a, c>>

\* str.strip() of a file's content.
Strip(content) == IF content = " " THEN "" ELSE content

\* What can go wrong with one completion file in one tick.
Faults == {"none", "read_text", "unlink"}

\* One ticket of the for loop of _poll_completion_loop: the queues and the
\* file afterwards.  mark_ticket_completed of one id leaves the entries of
\* the other ids alone, so the tickets of one tick are handled one by one.
WatchOne(a, c, f, id, fault, now) ==
    IF id \notin DOMAIN a \/ f[id] = NoFile \/ fault = "read_text"
    THEN <<a, c, f>>
    ELSE LET ac == MarkTicketCompleted(a, c, id, Strip(f[id]), now) IN
         <<ac[1], ac[2],
           IF fault = "unlink" THEN f ELSE [f EXCEPT ![id] = NoFile]>>

RECURSIVE WatchAll(_, _, _, _, _, _)
WatchAll(ids, a, c, f, fault, now) ==
    IF ids = {} THEN <<a, c, f>>
    ELSE LET id == CHOOSE x \in ids : TRUE
             n == WatchOne(a, c, f, id, fault[id], now)
         IN WatchAll(ids \ {id}, n[1], n[2], n[3], fault, now)

\* The ids whose file the tick reads: those of Active tickets with a file.
ReadBy(fault) ==
    {id \in DOMAIN active_sessions :
        files[id] # NoFile /\ fault[id] # "read_text"}

\* The for loop of _poll_completion_loop over the Active tickets.
Watch(fault) ==
    LET n == WatchAll(DOMAIN active_sessions, active_sessions,
                      completed_tickets, files, fault, clock) IN
    /\ active_sessions' = n[1]
    /\ completed_tickets' = n[2]
    /\ files' = n[3]
    /\ leftover' = IF leftover = NotFollowed THEN leftover
                   ELSE {id \in leftover \cup ReadBy(fault) : n[3][id] # NoFile}
    /\ predates' = IF predates = NotFollowed THEN predates
                   ELSE {id \in predates : n[3][id] # NoFile}

\* One iteration of _poll_completion_loop, then sleep(5).
WatcherTick(fault) ==
    /\ _completion_task = "sleeping"
    /\ Watch(fault)
    /\ last' = EnvStep
    /\ UNCHANGED <<pending_tickets, clock, inflight, created, plane, loop, daemon>>

\* mark_completed(id, summary) called from outside the completion loop.
MarkCompleted(id, summary) ==
    LET ac == MarkTicketCompleted(active_sessions, completed_tickets, id,
                                  summary, clock) IN
    /\ active_sessions' = ac[1]
    /\ completed_tickets' = ac[2]
    /\ last' = Event("mark_completed", id, "-", summary)
    /\ UNCHANGED <<pending_tickets, clock, inflight, files, stays, plane, loop, daemon>>

\* ----------------------------------------------------------------- publish
Replace(r, r2) == (inflight (-) SetToBag({r})) (+) SetToBag({r2})

\* Mutant: stop_after_attempt(4).
WriteAttempt_FourAttempts(attempt, resp) ==
    IF resp = "2xx" THEN "True"
    ELSE IF resp = "4xx" THEN "False"
    ELSE IF resp = "total_timeout" THEN "raise_timeout"
    ELSE IF attempt < MaxAttempts + 1 THEN "retry"
    ELSE "raise"

\* Mutant: every status that is not a success raises ClientError, the 4xx too.
WriteAttempt_Retries4xx(attempt, resp) ==
    IF resp = "2xx" THEN "True"
    ELSE IF resp = "total_timeout" THEN "raise_timeout"
    ELSE IF attempt < MaxAttempts THEN "retry"
    ELSE "raise"

\* Mutant: the write operations without the retry decorator.
WriteAttempt_NoRetry(attempt, resp) ==
    IF resp = "2xx" THEN "True"
    ELSE IF resp = "4xx" THEN "False"
    ELSE IF resp = "total_timeout" THEN "raise_timeout"
    ELSE "raise"

\* One attempt of a write operation (add_issue_comment, update_issue_state)
\* under @retry(retry_if_exception_type((ClientError, ServerTimeoutError)),
\* stop_after_attempt(3), reraise=True): what the attempt's response leads
\* to.  An exception of another type is raised to the caller at once.
WriteAttempt(attempt, resp) ==
    IF resp = "2xx" THEN "True"
    ELSE IF resp = "4xx" THEN "False"
    ELSE IF resp = "total_timeout" THEN "raise_timeout"
    ELSE IF attempt < MaxAttempts THEN "retry"
    ELSE "raise"

\* A caller awaits add_issue_comment or update_issue_state; seen is what the
\* attempts made so far have met.
WriteCall ==
    /\ Suspended < MaxInFlight
    /\ inflight' = Suspend([kind |-> "write", id |-> "-", seen |-> <<>>])
    /\ last' = EnvStep
    /\ UNCHANGED <<queues, clock, files, stays, plane, loop, daemon>>

\* The attempt in progress is answered by resp: the decorator makes another
\* attempt, or the caller gets True, False or the exception.
WriteAnswer(r, resp) ==
    LET res == WriteAttempt(Len(r.seen) + 1, resp) IN
    /\ r.kind = "write"
    /\ IF res = "retry"
       THEN /\ inflight' = Replace(r, [r EXCEPT !.seen = Append(@, resp)])
            /\ last' = EnvStep
       ELSE /\ inflight' = Resume(r)
            /\ last' = Event("write", "-", res, r.seen)
    /\ UNCHANGED <<queues, clock, files, stays, plane, loop, daemon>>

\* The 404 of update_plane_ticket.
PublishNotFound(id) ==
    /\ id \notin DOMAIN completed_tickets
    /\ last' = Event("publish", id, "404", "-")
    /\ UNCHANGED <<queues, clock, inflight, files, stays, plane, loop, daemon>>

\* Mutant: update_plane_ticket without its membership check.
PublishCall_NoCheck(id) ==
    /\ Suspended < MaxInFlight
    /\ inflight' = Suspend([kind |-> "publish", id |-> id,
                            phase |-> "comment", attempt |-> 1])
    /\ last' = EnvStep
    /\ UNCHANGED <<queues, clock, files, stays, plane, loop, daemon>>

\* update_plane_ticket up to the await of add_issue_comment.
PublishCall(id) ==
    /\ id \in DOMAIN completed_tickets
    /\ Suspended < MaxInFlight
    /\ inflight' = Suspend([kind |-> "publish", id |-> id,
                            phase |-> "comment", attempt |-> 1])
    /\ last' = EnvStep
    /\ UNCHANGED <<queues, clock, files, stays, plane, loop, daemon>>

\* Mutant: update_plane_ticket without "except Exception": only the
\* HTTPException it raises itself reaches the caller as a 500.
PublishFail_NoExcept(r, why) ==
    /\ inflight' = Resume(r)
    /\ last' = Event("publish", r.id,
                     IF why = "comment_false" THEN "500" ELSE "exception", why)
    /\ UNCHANGED <<queues, clock, files, stays, plane, loop, daemon>>

\* The handler fails with 500: nothing else is done.
PublishFail(r, why) ==
    /\ inflight' = Resume(r)
    /\ last' = Event("publish", r.id, "500", why)
    /\ UNCHANGED <<queues, clock, files, stays, plane, loop, daemon>>

\* The handler goes on to a further await.
PublishGoOn(r, r2) ==
    /\ inflight' = Replace(r, r2)
    /\ last' = EnvStep
    /\ UNCHANGED <<queues, clock, files, stays, plane, loop, daemon>>

\* del self.completed_tickets[ticket_id] and the answer; KeyError when the id
\* has left completed_tickets meanwhile.
PublishRemove(r, state_updated) ==
    /\ inflight' = Resume(r)
    /\ IF r.id \in DOMAIN completed_tickets
       THEN /\ completed_tickets' = DelKey(completed_tickets, r.id)
            /\ last' = Event("publish", r.id, "ok", state_updated)
       ELSE /\ completed_tickets' = completed_tickets
            /\ last' = Event("publish", r.id, "500", "KeyError")
    /\ UNCHANGED <<pending_tickets, active_sessions, clock, files,
                   stays, plane, loop, daemon>>

\* Mutant: update_plane_ticket without "if not success: raise".
PublishComment_IgnoresFalse(r, resp) ==
    /\ r \in DOMAIN inflight
    /\ r.kind = "publish"
    /\ r.phase = "comment"
    /\ LET res == WriteAttempt(r.attempt, resp) IN
       CASE res = "True"  -> PublishGoOn(r, [r EXCEPT !.phase = "lookup", !.attempt = 1])
         [] res = "False" -> PublishGoOn(r, [r EXCEPT !.phase = "lookup", !.attempt = 1])
         [] res = "retry" -> PublishGoOn(r, [r EXCEPT !.attempt = @ + 1])
         [] res = "raise" -> PublishFail(r, "comment_raise")
         [] res = "raise_timeout" -> PublishFail(r, "comment_timeout")

\* One attempt of add_issue_comment answered by resp.
PublishComment(r, resp) ==
    /\ r \in DOMAIN inflight
    /\ r.kind = "publish"
    /\ r.phase = "comment"
    /\ LET res == WriteAttempt(r.attempt, resp) IN
       CASE res = "True"  -> PublishGoOn(r, [r EXCEPT !.phase = "lookup", !.attempt = 1])
         [] res = "False" -> PublishFail(r, "comment_false")
         [] res = "retry" -> PublishGoOn(r, [r EXCEPT !.attempt = @ + 1])
         [] res = "raise" -> PublishFail(r, "comment_raise")
         [] res = "raise_timeout" -> PublishFail(r, "comment_timeout")

\* get_in_progress_state_id answered: a state id, None, or an exception that
\* list_states does not catch.
PublishLookup(r, res) ==
    /\ r \in DOMAIN inflight
    /\ r.kind = "publish"
    /\ r.phase = "lookup"
    /\ CASE res = "found" -> PublishGoOn(r, [r EXCEPT !.phase = "state", !.attempt = 1])
         [] res = "none"  -> PublishRemove(r, "state_updated=False")
         [] res = "raise" -> PublishFail(r, "lookup_raise")

\* One attempt of update_issue_state answered by resp; False and an exception
\* are logged and the handler goes on to the removal.
PublishState(r, resp) ==
    /\ r \in DOMAIN inflight
    /\ r.kind = "publish"
    /\ r.phase = "state"
    /\ LET res == WriteAttempt(r.attempt, resp) IN
       IF res = "retry"
       THEN PublishGoOn(r, [r EXCEPT !.attempt = @ + 1])
       ELSE PublishRemove(r, "state_updated=True")

\* ------------------------------------------------------------- environment
Tick ==
    /\ clock < MaxClock
    /\ clock' = clock + 1
    /\ last' = EnvStep
    /\ UNCHANGED <<queues, inflight, files, stays, plane, loop, daemon>>

\* The task runner writes /tmp/completion-<id>.txt.
WriteFile(id, content) ==
    /\ files[id] # content
    /\ files' = [files EXCEPT ![id] = content]
    /\ leftover' = leftover \ {id}
    /\ predates' = predates \ {id}
    /\ last' = EnvStep
    /\ UNCHANGED <<queues, clock, inflight, created, plane, loop, daemon>>

\* ------------------------------------------------ the daemon: start, stop
\* The two HTTP clients of the API, each with its _session.
Clients == {"tmux", "plane"}
\* The calls of stop(): 0 is the one in the finally block of main, the
\* others are the tasks the signal handler creates.
StopCalls == 0..MaxSignals
Terminated(task) == task \in {"cancelled", "finished"}

\* _get_session: a session is created when _session is None; a session that
\* is closed and not yet unset is returned as it is.
GetSession(s) == IF s = "None" THEN "open" ELSE s

\* Task.cancel(): nothing for a task that is done, else the CancelledError
\* is thrown into the task when it next runs.
Cancel(mc, name, task) ==
    IF task = "None" \/ Terminated(task) THEN mc ELSE mc \cup {name}

\* start(): running is set and the two tasks are created; the coroutine is
\* then suspended in server.serve().
Start ==
    /\ _poll_task = "None"
    /\ running' = TRUE
    /\ _poll_task' = "created"
    /\ _completion_task' = "created"
    /\ last' = Event("start", "-", "-", "-")
    /\ UNCHANGED <<queues, clock, inflight, files, stays, plane, loop, must_cancel,
                   stop_calls, _session>>

\* stop() runs from one of the points below to its next suspension.  s is
\* [mc, ses, at]: must_cancel, _session and the point stop() has come to.
\* Mutant: close() without its "if self._session".
ClosePlane_NoTest(s) ==
    IF s.ses["plane"] = "open"
    THEN [s EXCEPT !.ses["plane"] = "closed", !.at = "close_plane"]
    ELSE IF s.ses["plane"] = "None"
    THEN [s EXCEPT !.at = "raised"]
    ELSE [s EXCEPT !.ses["plane"] = "None", !.at = "returned"]

\* plane_client.close(): an open session is closed, which suspends the
\* caller; _session is unset after it.  On a session that is closed and not
\* yet unset, session.close() returns at once; on None nothing is done.
ClosePlane(s) ==
    IF s.ses["plane"] = "open"
    THEN [s EXCEPT !.ses["plane"] = "closed", !.at = "close_plane"]
    ELSE [s EXCEPT !.ses["plane"] = "None", !.at = "returned"]

\* tmux_client.close(), then plane_client.close().
CloseTmux(s) ==
    IF s.ses["tmux"] = "open"
    THEN [s EXCEPT !.ses["tmux"] = "closed", !.at = "close_tmux"]
    ELSE ClosePlane([s EXCEPT !.ses["tmux"] = "None"])

\* Mutant: stop() without the await of a task it has cancelled.
AwaitTask_NoWait(task) == FALSE

\* "await task" suspends stop() unless the task is done.
AwaitTask(task) == ~Terminated(task)

\* if self._completion_task: cancel it and await it; then the clients.
StopCompletion(s) ==
    IF _completion_task = "None" THEN CloseTmux(s)
    ELSE LET s2 == [s EXCEPT !.mc = Cancel(s.mc, "completion",
                                           _completion_task)] IN
         IF AwaitTask(_completion_task)
         THEN [s2 EXCEPT !.at = "await_completion"]
         ELSE CloseTmux(s2)

\* if self._poll_task: cancel it and await it; then the completion task.
StopPoll(s) ==
    IF _poll_task = "None" THEN StopCompletion(s)
    ELSE LET s2 == [s EXCEPT !.mc = Cancel(s.mc, "poll", _poll_task)] IN
         IF AwaitTask(_poll_task)
         THEN [s2 EXCEPT !.at = "await_poll"]
         ELSE StopCompletion(s2)

StopAt(c) == [mc |-> must_cancel, ses |-> _session, at |-> stop_calls[c]]
StopTo(c, s) ==
    /\ must_cancel' = s.mc
    /\ _session' = s.ses
    /\ stop_calls' = [stop_calls EXCEPT ![c] = s.at]
    /\ last' = Event("stop", "-", s.at, "-")
    /\ UNCHANGED <<queues, clock, inflight, files, stays, plane, loop, _poll_task,
                   _completion_task>>

\* stop() is called: by the finally block of main once start() was called,
\* by the signal handler at any time.
StopBegin(c) ==
    /\ stop_calls[c] = "idle"
    /\ c = 0 => _poll_task # "None"
    /\ running' = FALSE
    /\ StopTo(c, StopPoll(StopAt(c)))

\* The poll task is done: stop() goes on after "await self._poll_task".
StopPollDone(c) ==
    /\ stop_calls[c] = "await_poll"
    /\ Terminated(_poll_task)
    /\ StopTo(c, StopCompletion(StopAt(c)))
    /\ UNCHANGED running

\* The completion task is done: stop() goes on to close the clients.
StopCompletionDone(c) ==
    /\ stop_calls[c] = "await_completion"
    /\ Terminated(_completion_task)
    /\ StopTo(c, CloseTmux(StopAt(c)))
    /\ UNCHANGED running

\* session.close() of tmux_client.close() returns: _session is unset, and
\* stop() goes on to plane_client.close().
StopTmuxClosed(c) ==
    /\ stop_calls[c] = "close_tmux"
    /\ StopTo(c, ClosePlane([StopAt(c) EXCEPT !.ses["tmux"] = "None"]))
    /\ UNCHANGED running

\* session.close() of plane_client.close() returns: _session is unset and
\* stop() returns.
StopPlaneClosed(c) ==
    /\ stop_calls[c] = "close_plane"
    /\ StopTo(c, [StopAt(c) EXCEPT !.ses["plane"] = "None",
                                   !.at = "returned"])
    /\ UNCHANGED running

\* ------------------------------------------------- the daemon: the two loops
\* No poll_for_triggers() is in progress.
NoCall == [project |-> 0, triggered |-> <<>>]
\* poll_for_triggers() awaits the listing of the first project, its
\* triggered_tickets empty.
FirstListing == [project |-> 1, triggered |-> <<>>]

\* _poll_plane_loop runs from task creation or from a sleep: the while test,
\* then poll_for_triggers(), whose request goes out on the session
\* _get_session returns; a closed session raises RuntimeError, which the
\* loop's "except Exception" takes like any other.
PollLoopEnter ==
    /\ _poll_task \in {"created", "sleeping", "backoff"}
    /\ "poll" \notin must_cancel
    /\ IF ~running
       THEN /\ _poll_task' = "finished"
            /\ last' = Event("poll_loop", "-", "exit", _poll_task)
            /\ poll_sleep' = 0
            /\ UNCHANGED <<_session, poll_call>>
       ELSE IF _session["plane"] = "closed"
       THEN /\ _poll_task' = "backoff"
            /\ last' = Event("poll_loop", "-", "raise", "closed")
            /\ poll_sleep' = BackoffDelay
            /\ UNCHANGED <<_session, poll_call>>
       ELSE /\ _poll_task' = "polling"
            /\ last' = Event("poll_loop", "-", "request", _poll_task)
            /\ _session' = [_session EXCEPT !["plane"] = GetSession(@)]
            /\ poll_sleep' = 0
            /\ poll_call' = FirstListing
    /\ UNCHANGED <<queues, clock, inflight, files, stays, plane, running,
                   _completion_task, must_cancel, stop_calls, poll_interval>>

\* poll_for_triggers() returned trig: the admission loop, then
\* sleep(poll_interval).
PollLoopReturn(trig) ==
    /\ _poll_task = "polling"
    /\ "poll" \notin must_cancel
    /\ Admission(trig)
    /\ _poll_task' = "sleeping"
    /\ poll_sleep' = poll_interval
    /\ poll_call' = NoCall
    /\ last' = Event("poll_loop", "-", "ok", "-")
    /\ UNCHANGED <<active_sessions, completed_tickets, clock, files, plane,
                   running, _completion_task, must_cancel, stop_calls,
                   _session, poll_interval>>

\* The projects of config.plane.project_ids, in their order; the issues the
\* model follows are those of the first.
ProjectListings(p) == IF p = 1 THEN Listings ELSE {<<>>}

\* The loop over the issues of one project, on the triggered_tickets of the
\* projects before it.
ProjectTriggers(listed) ==
    PollForTriggers(listed, _last_poll_state, poll_call.triggered)

\* list_project_issues() of the project poll_for_triggers() is at returned
\* listed: _check_trigger on each issue; then the listing of the next
\* project is awaited or, after the last, poll_for_triggers() returns and
\* the iteration goes on to the admission loop and sleep(poll_interval).
PollProjectListed(listed) ==
    LET res == ProjectTriggers(listed) IN
    /\ _poll_task = "polling"
    /\ "poll" \notin must_cancel
    /\ listed \in ProjectListings(poll_call.project)
    /\ _last_poll_state' = res.snap
    /\ observed' = [id \in {listed[i] : i \in DOMAIN listed}
                           \cup (IF poll_call.project = 1 THEN {}
                                 ELSE DOMAIN observed) |->
                       IF \E i \in DOMAIN listed : listed[i] = id
                       THEN issues[id] ELSE observed[id]]
    /\ IF poll_call.project < MaxProjects
       THEN /\ poll_call' = [project |-> poll_call.project + 1,
                             triggered |-> res.triggered_tickets]
            /\ last' = Event("poll_loop", "-", "listed", "-")
            /\ UNCHANGED <<pending_tickets, inflight, stays,
                           triggered_tickets, _poll_task, poll_sleep>>
       ELSE /\ triggered_tickets' = res.triggered_tickets
            /\ Admission(res.triggered_tickets)
            /\ _poll_task' = "sleeping"
            /\ poll_sleep' = poll_interval
            /\ poll_call' = NoCall
            /\ last' = Event("poll_loop", "-", "ok", "-")
    /\ UNCHANGED <<active_sessions, completed_tickets, clock, files, issues,
                   running, _completion_task, must_cancel, stop_calls,
                   _session, poll_interval>>

\* Mutant: an exception in the iteration ends the loop.
PollLoopRaise_Terminates ==
    /\ _poll_task = "polling"
    /\ "poll" \notin must_cancel
    /\ _poll_task' = "finished"
    /\ poll_sleep' = 0
    /\ poll_call' = NoCall
    /\ last' = Event("poll_loop", "-", "raise", "-")
    /\ UNCHANGED <<queues, clock, inflight, files, stays, plane, running,
                   _completion_task, must_cancel, stop_calls, _session,
                   poll_interval>>

\* poll_for_triggers() raised an Exception: it is logged and the loop sleeps
\* 10 seconds.
PollLoopRaise ==
    /\ _poll_task = "polling"
    /\ "poll" \notin must_cancel
    /\ _poll_task' = "backoff"
    /\ poll_sleep' = BackoffDelay
    /\ poll_call' = NoCall
    /\ last' = Event("poll_loop", "-", "raise", "-")
    /\ UNCHANGED <<queues, clock, inflight, files, stays, plane, running,
                   _completion_task, must_cancel, stop_calls, _session,
                   poll_interval>>

\* The CancelledError of cancel() reaches the poll task at its await; no
\* "except Exception" takes it and the task ends.
PollLoopCancelled ==
    /\ "poll" \in must_cancel
    /\ _poll_task' = "cancelled"
    /\ must_cancel' = must_cancel \ {"poll"}
    /\ poll_sleep' = 0
    /\ poll_call' = NoCall
    /\ last' = Event("poll_loop", "-", "cancelled", _poll_task)
    /\ UNCHANGED <<queues, clock, inflight, files, stays, plane, running,
                   _completion_task, stop_calls, _session, poll_interval>>

\* Mutant: the completion loop as a step of the poll loop's iteration, run
\* only once poll_for_triggers() has returned.
CompletionLoopTick_AfterPoll(fault) ==
    /\ _completion_task \in {"created", "sleeping"}
    /\ "completion" \notin must_cancel
    /\ _poll_task = "sleeping"
    /\ IF running
       THEN /\ Watch(fault)
            /\ _completion_task' = "sleeping"
            /\ last' = Event("completion_loop", "-", "tick", "-")
       ELSE /\ _completion_task' = "finished"
            /\ last' = Event("completion_loop", "-", "exit", "-")
            /\ UNCHANGED <<active_sessions, completed_tickets, files,
                           leftover, predates>>
    /\ UNCHANGED <<pending_tickets, clock, inflight, created, plane, loop, running,
                   _poll_task, must_cancel, stop_calls, _session>>

\* _poll_completion_loop runs from task creation or from its sleep: the
\* while test, the for loop over the Active tickets, sleep(5).
CompletionLoopTick(fault) ==
    /\ _completion_task \in {"created", "sleeping"}
    /\ "completion" \notin must_cancel
    /\ IF running
       THEN /\ Watch(fault)
            /\ _completion_task' = "sleeping"
            /\ last' = Event("completion_loop", "-", "tick", "-")
       ELSE /\ _completion_task' = "finished"
            /\ last' = Event("completion_loop", "-", "exit", "-")
            /\ UNCHANGED <<active_sessions, completed_tickets, files,
                           leftover, predates>>
    /\ UNCHANGED <<pending_tickets, clock, inflight, created, plane, loop, running,
                   _poll_task, must_cancel, stop_calls, _session>>

\* The CancelledError of cancel() reaches the completion task.
CompletionLoopCancelled ==
    /\ "completion" \in must_cancel
    /\ _completion_task' = "cancelled"
    /\ must_cancel' = must_cancel \ {"completion"}
    /\ last' = Event("completion_loop", "-", "cancelled", "-")
    /\ UNCHANGED <<queues, clock, inflight, files, stays, plane, loop, running,
                   _poll_task, stop_calls, _session>>

\* GET /health while the server runs, from start() to the return of
\* server.serve(), after which main calls stop(): tmux_client.health_check()
\* sends its request on the session _get_session returns (RuntimeError on a
\* closed one) and the handler is suspended in it.
HealthCall ==
    /\ _poll_task # "None"
    /\ stop_calls[0] = "idle"
    /\ Suspended < MaxInFlight
    /\ IF _session["tmux"] = "closed"
       THEN /\ last' = Event("health", "-", "500", "RuntimeError")
            /\ UNCHANGED <<inflight, _session>>
       ELSE /\ inflight' = Suspend([kind |-> "health", id |-> "-"])
            /\ _session' = [_session EXCEPT !["tmux"] = GetSession(@)]
            /\ last' = EnvStep
    /\ UNCHANGED <<queues, clock, files, stays, plane, loop, running, _poll_task,
                   _completion_task, must_cancel, stop_calls>>

\* health_check() returned healthy (status 200) or not.
HealthReturn(r, healthy) ==
    /\ r.kind = "health"
    /\ inflight' = Resume(r)
    /\ last' = Event("health", "-", "ok",
                     IF healthy THEN "healthy" ELSE "degraded")
    /\ UNCHANGED <<queues, clock, files, stays, plane, loop, daemon>>

\* The daemon a moment after start(): both loops have been entered, the
\* first poll is out, a health check has been served, nobody called stop().
Started ==
    /\ running = TRUE
    /\ _poll_task = "polling"
    /\ _completion_task = "sleeping"
    /\ must_cancel = {}
    /\ stop_calls = [c \in StopCalls |-> "idle"]
    /\ _session = [c \in Clients |-> "open"]
    /\ poll_interval = DefaultPollInterval
    /\ poll_sleep = 0
    /\ poll_call = FirstListing

\* ------------------------------------------------------------ specification
Init ==
    /\ pending_tickets = EmptyDict
    /\ active_sessions = EmptyDict
    /\ completed_tickets = EmptyDict
    /\ clock = 0
    /\ inflight = EmptyBag
    /\ files = [id \in Tickets |-> NoFile]
    /\ created = EmptyDict
    /\ leftover = NotFollowed
    /\ predates = NotFollowed
    /\ last = EnvStep
    /\ issues = EmptyDict
    /\ _last_poll_state = EmptyDict
    /\ triggered_tickets = <<>>
    /\ observed = EmptyDict
    /\ Started

\* The same start, with the history of sessions per stay in Pending kept.
InitStay ==
    /\ pending_tickets = EmptyDict
    /\ active_sessions = EmptyDict
    /\ completed_tickets = EmptyDict
    /\ clock = 0
    /\ inflight = EmptyBag
    /\ files = [id \in Tickets |-> NoFile]
    /\ created = [id \in Tickets |-> {}]
    /\ leftover = NotFollowed
    /\ predates = NotFollowed
    /\ last = EnvStep
    /\ issues = EmptyDict
    /\ _last_poll_state = EmptyDict
    /\ triggered_tickets = <<>>
    /\ observed = EmptyDict
    /\ Started

\* The same start, with the files that survive a failed delete followed.
InitWatch ==
    /\ pending_tickets = EmptyDict
    /\ active_sessions = EmptyDict
    /\ completed_tickets = EmptyDict
    /\ clock = 0
    /\ inflight = EmptyBag
    /\ files = [id \in Tickets |-> NoFile]
    /\ created = EmptyDict
    /\ leftover = {}
    /\ predates = {}
    /\ last = EnvStep
    /\ issues = EmptyDict
    /\ _last_poll_state = EmptyDict
    /\ triggered_tickets = <<>>
    /\ observed = EmptyDict
    /\ Started

\* The handlers and loops that admit, approve, complete and delete.
NextApprove ==
    \/ \E id \in Tickets, d \in Data : AddTestTicket(id, d)
    \/ \E trig \in TriggerLists : PollReturn(trig)
    \/ \E id \in Tickets : ApproveNotFound(id)
    \/ \E id \in Tickets : ApproveCall(id)
    \/ \E r \in DOMAIN inflight : ApproveReturn(r)
    \/ \E r \in DOMAIN inflight : ApproveRaise(r)
    \/ \E id \in Tickets : DeleteTicket(id)
    \/ \E fault \in [Tickets -> Faults] : WatcherTick(fault)
    \/ Tick
    \/ \E id \in Tickets : WriteFile(id, "s1")

SpecApprove == Init /\ [][NextApprove]_vars

SpecStay == InitStay /\ [][NextApprove]_vars

\* The same with mark_completed also called from outside the completion loop.
NextIface ==
    \/ NextApprove
    \/ \E id \in Tickets, summary \in Summaries : MarkCompleted(id, summary)

SpecIface == Init /\ [][NextIface]_vars

\* Publishing under every interleaving with admission, approval, completion
\* and deletion.  update_plane_ticket reads no timestamp:
\* the clock stands still here.
NextPublish ==
    \/ \E id \in Tickets, d \in Data : AddTestTicket(id, d)
    \/ \E trig \in TriggerLists : PollReturn(trig)
    \/ \E id \in Tickets : ApproveCall(id)
    \/ \E r \in DOMAIN inflight : ApproveReturn(r)
    \/ \E r \in DOMAIN inflight : ApproveRaise(r)
    \/ \E id \in Tickets : DeleteTicket(id)
    \/ \E fault \in [Tickets -> Faults] : WatcherTick(fault)
    \/ \E id \in Tickets : WriteFile(id, "s1")
    \/ \E id \in Tickets : PublishNotFound(id)
    \/ \E id \in Tickets : PublishCall(id)
    \/ \E r \in DOMAIN inflight, resp \in Responses : PublishComment(r, resp)
    \/ \E r \in DOMAIN inflight, res \in {"found", "none", "raise"} : PublishLookup(r, res)
    \/ \E r \in DOMAIN inflight, resp \in Responses : PublishState(r, resp)

SpecPublish == Init /\ [][NextPublish]_vars

\* Trigger detection against a tracker whose issues change between polls;
\* delete empties Pending so that a later trigger is admitted again.
NextTrigger ==
    \/ \E id \in Tickets, issue \in Issues : EditIssue(id, issue)
    \/ \E listed \in Listings : PollTriggers(listed)
    \/ \E id \in Tickets : DeleteTicket(id)

SpecTrigger == Init /\ [][NextTrigger]_vars

\* The poll loop as the only source of tickets, against approvals that are
\* suspended in create_session while it runs.
NextPolled ==
    \/ \E id \in Tickets, issue \in Issues : EditIssue(id, issue)
    \/ \E listed \in Listings : PollTriggers(listed)
    \/ \E id \in Tickets : ApproveCall(id)
    \/ \E r \in DOMAIN inflight : ApproveReturn(r)
    \/ \E r \in DOMAIN inflight : ApproveRaise(r)

SpecPolled == Init /\ [][NextPolled]_vars

\* The completion loop against a task runner that writes any content, with
\* tickets that are admitted by the poll loop, approved one request at a
\* time, deleted and admitted again.
NextWatch ==
    \/ \E trig \in TriggerLists : PollReturn(trig)
    \/ \E id \in Tickets : inflight = EmptyBag /\ ApproveCall(id)
    \/ \E r \in DOMAIN inflight : ApproveReturn(r)
    \/ \E id \in Tickets : DeleteTicket(id)
    \/ \E fault \in [Tickets -> Faults] : WatcherTick(fault)
    \/ \E id \in Tickets, content \in Contents : WriteFile(id, content)

SpecWatch == InitWatch /\ [][NextWatch]_vars

\* The write operations of the tracker client, called and answered.
NextClient ==
    \/ WriteCall
    \/ \E r \in DOMAIN inflight, resp \in Responses : WriteAnswer(r, resp)

SpecClient == Init /\ [][NextClient]_vars

\* The orchestrator as constructed: nothing runs, no session exists.
InitDaemon ==
    /\ pending_tickets = EmptyDict
    /\ active_sessions = EmptyDict
    /\ completed_tickets = EmptyDict
    /\ clock = 0
    /\ inflight = EmptyBag
    /\ files = [id \in Tickets |-> NoFile]
    /\ created = EmptyDict
    /\ leftover = NotFollowed
    /\ predates = NotFollowed
    /\ last = EnvStep
    /\ issues = EmptyDict
    /\ _last_poll_state = EmptyDict
    /\ triggered_tickets = <<>>
    /\ observed = EmptyDict
    /\ running = FALSE
    /\ _poll_task = "None"
    /\ _completion_task = "None"
    /\ must_cancel = {}
    /\ stop_calls = [c \in StopCalls |-> "idle"]
    /\ _session = [c \in Clients |-> "None"]
    /\ poll_interval = DefaultPollInterval
    /\ poll_sleep = 0
    /\ poll_call = NoCall

\* start(), the two loops, the health route and the calls of stop().
NextDaemon ==
    \/ Start
    \/ PollLoopEnter
    \/ \E trig \in TriggerLists : PollLoopReturn(trig)
    \/ PollLoopRaise
    \/ PollLoopCancelled
    \/ \E fault \in [Tickets -> Faults] : CompletionLoopTick(fault)
    \/ CompletionLoopCancelled
    \/ HealthCall
    \/ \E r \in DOMAIN inflight, healthy \in BOOLEAN : HealthReturn(r, healthy)
    \/ \E c \in StopCalls : StopBegin(c)
    \/ \E c \in StopCalls : StopPollDone(c)
    \/ \E c \in StopCalls : StopCompletionDone(c)
    \/ \E c \in StopCalls : StopTmuxClosed(c)
    \/ \E c \in StopCalls : StopPlaneClosed(c)

SpecDaemon == InitDaemon /\ [][NextDaemon]_vars

\* The orchestrator as constructed, under each configured poll_interval.
InitTiming ==
    /\ pending_tickets = EmptyDict
    /\ active_sessions = EmptyDict
    /\ completed_tickets = EmptyDict
    /\ clock = 0
    /\ inflight = EmptyBag
    /\ files = [id \in Tickets |-> NoFile]
    /\ created = EmptyDict
    /\ leftover = NotFollowed
    /\ predates = NotFollowed
    /\ last = EnvStep
    /\ issues = EmptyDict
    /\ _last_poll_state = EmptyDict
    /\ triggered_tickets = <<>>
    /\ observed = EmptyDict
    /\ running = FALSE
    /\ _poll_task = "None"
    /\ _completion_task = "None"
    /\ must_cancel = {}
    /\ stop_calls = [c \in StopCalls |-> "idle"]
    /\ _session = [c \in Clients |-> "None"]
    /\ poll_interval \in PollIntervals
    /\ poll_sleep = 0
    /\ poll_call = NoCall

SpecTiming == InitTiming /\ [][NextDaemon]_vars

\* The poll loop project by project, each listing returning or raising,
\* against a tracker whose issues change; delete empties Pending.
NextPartial ==
    \/ \E id \in Tickets, issue \in Issues : EditIssue(id, issue)
    \/ PollLoopEnter
    \/ \E listed \in Listings : PollProjectListed(listed)
    \/ PollLoopRaise
    \/ \E id \in Tickets : DeleteTicket(id)

SpecPartial == Init /\ [][NextPartial]_vars

\* The orchestrator as constructed, against a tracker that has no issue or
\* one.
InitDrain ==
    /\ pending_tickets = EmptyDict
    /\ active_sessions = EmptyDict
    /\ completed_tickets = EmptyDict
    /\ clock = 0
    /\ inflight = EmptyBag
    /\ files = [id \in Tickets |-> NoFile]
    /\ created = EmptyDict
    /\ leftover = NotFollowed
    /\ predates = NotFollowed
    /\ last = EnvStep
    /\ issues \in {EmptyDict} \cup
                  UNION {[{id} -> Issues] : id \in Tickets}
    /\ _last_poll_state = EmptyDict
    /\ triggered_tickets = <<>>
    /\ observed = EmptyDict
    /\ running = FALSE
    /\ _poll_task = "None"
    /\ _completion_task = "None"
    /\ must_cancel = {}
    /\ stop_calls = [c \in StopCalls |-> "idle"]
    /\ _session = [c \in Clients |-> "None"]
    /\ poll_interval = DefaultPollInterval
    /\ poll_sleep = 0
    /\ poll_call = NoCall

\* start(), the poll loop project by project, the completion loop, the
\* health route and the calls of stop().
NextDrain ==
    \/ Start
    \/ PollLoopEnter
    \/ \E listed \in Listings : PollProjectListed(listed)
    \/ PollLoopRaise
    \/ PollLoopCancelled
    \/ \E fault \in [Tickets -> Faults] : CompletionLoopTick(fault)
    \/ CompletionLoopCancelled
    \/ HealthCall
    \/ \E r \in DOMAIN inflight, healthy \in BOOLEAN : HealthReturn(r, healthy)
    \/ \E c \in StopCalls : StopBegin(c)
    \/ \E c \in StopCalls : StopPollDone(c)
    \/ \E c \in StopCalls : StopCompletionDone(c)
    \/ \E c \in StopCalls : StopTmuxClosed(c)
    \/ \E c \in StopCalls : StopPlaneClosed(c)

SpecDrain == InitDrain /\ [][NextDrain]_vars

\* The two loops of the running daemon side by side: the poll loop, whose
\* polls return, raise or stay out, admits the tickets that are approved one
\* request at a time, and a task runner writes completion files.
NextLoops ==
    \/ PollLoopEnter
    \/ \E trig \in TriggerLists : PollLoopReturn(trig)
    \/ PollLoopRaise
    \/ \E id \in Tickets : inflight = EmptyBag /\ ApproveCall(id)
    \/ \E r \in DOMAIN inflight : ApproveReturn(r)
    \/ \E r \in DOMAIN inflight : ApproveRaise(r)
    \/ \E id \in Tickets, content \in Contents : WriteFile(id, content)
    \/ \E id \in Tickets : DeleteTicket(id)
    \/ \E fault \in [Tickets -> Faults] : CompletionLoopTick(fault)

SpecLoops == Init /\ [][NextLoops]_vars

\* asyncio runs the completion task when its sleep(5) is over, whatever the
\* poll task is suspended in, and a completion file that exists is sooner or
\* later read without an error.  Nothing is assumed of the poll loop.
FairCompletion ==
    SpecLoops /\ WF_vars(CompletionLoopTick([id \in Tickets |-> "none"]))

\* The event loop runs every task that is ready and fires every timer: a
\* loop that sleeps is woken.
FairDaemon == SpecDaemon /\ WF_vars(PollLoopEnter)

\* Approval against a session service whose answers are followed.
NextSession ==
    \/ \E id \in Tickets, d \in Data : AddTestTicket(id, d)
    \/ \E trig \in TriggerLists : PollReturn(trig)
    \/ \E id \in Tickets : ApproveNotFound(id)
    \/ \E id \in Tickets : ApproveCall(id)
    \/ \E r \in DOMAIN inflight, resp \in SessionResponses : ApproveAnswer(r, resp)
    \/ \E id \in Tickets : DeleteTicket(id)
    \/ \E fault \in [Tickets -> Faults] : WatcherTick(fault)
    \/ \E id \in Tickets : WriteFile(id, "s1")

SpecSession == Init /\ [][NextSession]_vars

\* ------------------------------------------------------------------ claims
InPending(id) == id \in DOMAIN pending_tickets
InActive(id) == id \in DOMAIN active_sessions
InCompleted(id) == id \in DOMAIN completed_tickets

\* C1: no ticket id is a key of more than one of pending_tickets,
\* active_sessions and completed_tickets.
C1_DisjointQueues ==
    \A id \in Tickets :
        /\ ~(InPending(id) /\ InActive(id))
        /\ ~(InPending(id) /\ InCompleted(id))
        /\ ~(InActive(id) /\ InCompleted(id))

\* C2: the approve calls of one stay of an id in Pending, however they
\* overlap, create at most one distinct session on the session service.  (A
\* stay ends with the first Pending->Active transition, so it has one at most.)
C2_OneSessionPerStay ==
    \A id \in DOMAIN created : Cardinality(created[id]) <= 1

\* C3: an approve call that ends in a failure response (404 or 500) has
\* changed none of the three queues.
C3_FailedApproveNoMutation ==
    [][(last'.op = "approve" /\ last'.outcome # "ok") => UNCHANGED queues]_vars

\* C4: when create_session raises, the caller gets an error and no queue
\* changes: a ticket that is in Pending and not in Active stays in Pending
\* with the same data and out of Active.
C4_CreateFailureKeepsPending ==
    [][\A r \in DOMAIN inflight :
          ApproveRaise(r) =>
              /\ last' = Event("approve", r.id, "500", "create_session")
              /\ UNCHANGED queues
              /\ InPending(r.id) =>
                     /\ r.id \in DOMAIN pending_tickets'
                     /\ pending_tickets'[r.id] = pending_tickets[r.id]
              /\ ~InActive(r.id) => r.id \notin DOMAIN active_sessions']_vars

C4_Witness ==
    /\ last = Event("approve", "T1", "500", "create_session")
    /\ InPending("T1")
    /\ ~InActive("T1")

\* C5: approve on an id that is not in Pending answers 404, suspends no
\* create_session call and changes no queue.
C5_ApproveNotPending ==
    [][\A id \in Tickets :
          (~InPending(id) /\ (ApproveNotFound(id) \/ ApproveCall(id))) =>
              /\ last' = Event("approve", id, "404", "-")
              /\ UNCHANGED <<queues, inflight>>]_vars

C5_Witness ==
    /\ last = Event("approve", "T1", "404", "-")
    /\ InActive("T1")
    /\ ~InPending("T1")

\* C6: an admit of an id that directly follows an admit of the same id
\* changes nothing: one Pending entry, the state of the first admit.
C6_AdmitTwice ==
    [][\A id \in Tickets :
          (last.op = "add_ticket" /\ last.id = id) =>
              /\ (last'.op = "add_ticket" /\ last'.id = id) => UNCHANGED queues
              /\ last'.op = "poll" =>
                     /\ UNCHANGED <<active_sessions, completed_tickets>>
                     /\ pending_tickets'[id] = pending_tickets[id]]_vars

\* C7: admitting an id that is in Pending, Active or Completed changes no
\* queue, by add_pending_ticket (the add-ticket endpoint) and by the poll loop.
C7_AdmitQueuedChangesNothing ==
    [][\A id \in Tickets :
          Queued(id) =>
              /\ (last'.op = "add_ticket" /\ last'.id = id) => UNCHANGED queues
              /\ last'.op = "poll" =>
                     /\ UNCHANGED <<active_sessions, completed_tickets>>
                     /\ InPending(id) =>
                            /\ id \in DOMAIN pending_tickets'
                            /\ pending_tickets'[id] = pending_tickets[id]
                     /\ ~InPending(id) => id \notin DOMAIN pending_tickets']_vars

\* The entry mark_ticket_completed is to leave in Completed.
CompletedAs(id, summary) ==
    /\ id \notin DOMAIN active_sessions'
    /\ id \in DOMAIN completed_tickets'
    /\ completed_tickets'[id].summary = summary
    /\ completed_tickets'[id].completed_at >= active_sessions[id].started_at
    /\ completed_tickets'[id].started_at = active_sessions[id].started_at
    /\ completed_tickets'[id].session_id = active_sessions[id].session_id
    /\ completed_tickets'[id].data = active_sessions[id].data

\* C8: mark_ticket_completed on an Active ticket, called directly or by the
\* completion loop, moves it to Completed with the given summary, its
\* session_id and a completed_at that is not before its started_at.
C8_CompleteActive ==
    [][\A id \in DOMAIN active_sessions :
          /\ \A summary \in Summaries :
                 (last'.op = "mark_completed" /\ MarkCompleted(id, summary))
                     => CompletedAs(id, summary)
          /\ \A fault \in [Tickets -> Faults] :
                 (/\ files[id] # NoFile
                  /\ fault[id] # "read_text"
                  /\ last' = EnvStep
                  /\ pending_tickets' = pending_tickets
                  /\ inflight' = inflight
                  /\ WatcherTick(fault))
                     => CompletedAs(id, Strip(files[id]))]_vars

C8_Witness ==
    /\ last.op = "mark_completed"
    /\ last.id = "T1"
    /\ InCompleted("T1")
    /\ ~InActive("T1")
    /\ completed_tickets["T1"].summary = last.detail
    /\ completed_tickets["T1"].completed_at > completed_tickets["T1"].started_at

\* C9: mark_ticket_completed on an id that is not Active changes no queue; a
\* summary and completed_at already recorded stay as they are.
C9_CompleteNotActive ==
    [][\A id \in Tickets, summary \in Summaries :
          (~InActive(id) /\ last'.op = "mark_completed" /\ MarkCompleted(id, summary))
              => UNCHANGED queues]_vars

C9_Witness ==
    /\ last.op = "mark_completed"
    /\ last.id = "T1"
    /\ InCompleted("T1")
    /\ completed_tickets["T1"].summary # last.detail

\* C10: an attempt of add_issue_comment that ends the operation without
\* success (a 4xx: False; a 5xx, network error or timeout that is not retried:
\* raised)
\* makes publish answer 500 with the queues unchanged, and publish removes an
\* id from Completed only in a call whose add_issue_comment returned True.
C10_PublishNeedsComment ==
    [][/\ \A r \in DOMAIN inflight, resp \in Responses :
            (PublishComment(r, resp)
             /\ WriteAttempt(r.attempt, resp)
                    \in {"False", "raise", "raise_timeout"}) =>
                /\ last'.op = "publish" /\ last'.id = r.id /\ last'.outcome = "500"
                /\ UNCHANGED queues
       /\ \A id \in Tickets :
            (last'.op = "publish" /\ last'.id = id
             /\ id \in DOMAIN completed_tickets
             /\ id \notin DOMAIN completed_tickets') =>
                \E r \in DOMAIN inflight :
                    /\ r.kind = "publish" /\ r.id = id /\ r.phase # "comment"
                    /\ inflight' = Resume(r)]_vars

C10_Witness ==
    /\ last.op = "publish"
    /\ last.id = "T1"
    /\ last.outcome = "500"
    /\ last.detail = "comment_raise"
    /\ InCompleted("T1")

\* C11: once add_issue_comment has returned True, whatever ends the call (the
\* state lookup finding nothing or raising, update_issue_state returning
\* False or raising) removes the ticket, if it is still in Completed, and
\* answers success.
C11_StateUpdateBestEffort ==
    [][\A r \in DOMAIN inflight :
          (/\ r.kind = "publish"
           /\ r.phase # "comment"
           /\ r.id \in DOMAIN completed_tickets
           /\ last'.op = "publish"
           /\ last'.id = r.id
           /\ inflight' = Resume(r)) =>
              /\ last'.outcome = "ok"
              /\ r.id \notin DOMAIN completed_tickets']_vars

\* C12: a publish call that answers 500 leaves its ticket in Completed, with
\* the entry it had, whatever ran while the call was suspended.
C12_FailedPublishKeepsTicket ==
    [][(last'.op = "publish" /\ last'.outcome = "500") =>
          /\ last'.id \in DOMAIN completed_tickets'
          /\ completed_tickets'[last'.id] = completed_tickets[last'.id]]_vars

\* C13: delete of an id that is in Active only answers 404 and changes no
\* queue, and a step that takes an id out of Active is a
\* mark_ticket_completed of that id.
C13_DeleteNeverActive ==
    [][\A id \in DOMAIN active_sessions :
          /\ (~InPending(id) /\ ~InCompleted(id) /\ last'.op = "delete"
                 /\ DeleteTicket(id)) =>
                /\ last' = Event("delete", id, "404", "-")
                /\ UNCHANGED queues
          /\ id \notin DOMAIN active_sessions' =>
                /\ id \in DOMAIN completed_tickets'
                /\ completed_tickets'[id] =
                       MarkTicketCompleted(active_sessions, completed_tickets,
                           id, completed_tickets'[id].summary, clock)[2][id]]_vars

C13_Witness ==
    /\ last = Event("delete", "T1", "404", "-")
    /\ InActive("T1")
    /\ ~InPending("T1")
    /\ ~InCompleted("T1")

\* The trigger type the list tt holds for id, NoTrigger when it holds none.
TriggerOf(tt, id) ==
    IF \E i \in DOMAIN tt : tt[i].id = id
    THEN tt[CHOOSE i \in DOMAIN tt : tt[i].id = id].data
    ELSE NoTrigger
InList(l, id) == \E i \in DOMAIN l : l[i] = id
Observed(id) ==
    [state |-> issues[id].state, updated_at |-> issues[id].updated_at]

\* C14: a poll that lists an issue without a snapshot records the issue's
\* state and updated_at as its snapshot, and reports new_ticket for it when
\* its state group (in any letter case) is started or unstarted, and no
\* trigger otherwise.
C14_FirstSight ==
    [][\A listed \in Listings, id \in DOMAIN issues :
          (/\ id \notin DOMAIN _last_poll_state
           /\ InList(listed, id)
           /\ last'.op = "poll"
           /\ PollTriggers(listed)) =>
              /\ id \in DOMAIN _last_poll_state'
              /\ _last_poll_state'[id] = Observed(id)
              /\ TriggerOf(triggered_tickets', id) =
                     IF Lower(issues[id].group) \in {"started", "unstarted"}
                     THEN "new_ticket" ELSE NoTrigger]_vars

C14_Witness ==
    /\ last.op = "poll"
    /\ TriggerOf(triggered_tickets, "T1") = "new_ticket"
    /\ "T1" \in DOMAIN _last_poll_state
    /\ _last_poll_state["T1"] = Observed("T1")
    /\ InPending("T1")

\* C15: a poll that lists an issue with a snapshot reports status_change when
\* the issue's state differs from the snapshot's (whatever its updated_at),
\* else comment_added when its updated_at differs, else no trigger, and then
\* the snapshot is as it was.
C15_Classify ==
    [][\A listed \in Listings, id \in DOMAIN _last_poll_state :
          (/\ InList(listed, id)
           /\ last'.op = "poll"
           /\ PollTriggers(listed)) =>
              IF issues[id].state # _last_poll_state[id].state
              THEN TriggerOf(triggered_tickets', id) = "status_change"
              ELSE IF issues[id].updated_at # _last_poll_state[id].updated_at
              THEN TriggerOf(triggered_tickets', id) = "comment_added"
              ELSE /\ TriggerOf(triggered_tickets', id) = NoTrigger
                   /\ _last_poll_state'[id] = _last_poll_state[id]]_vars

\* A status_change reported for an issue whose updated_at had changed too.
C15_Witness ==
    /\ last.op = "poll"
    /\ TriggerOf(triggered_tickets, "T1") = "status_change"
    /\ _last_poll_state["T1"].state = issues["T1"].state
    /\ _last_poll_state["T1"].updated_at # issues["T1"].updated_at

\* C16: after a poll has classified an issue, the issue's snapshot holds the
\* state and the updated_at the poll observed.
C16_SnapshotIsLastObserved ==
    [][\A listed \in Listings, id \in DOMAIN issues :
          (/\ InList(listed, id)
           /\ last'.op = "poll"
           /\ PollTriggers(listed)) =>
              /\ id \in DOMAIN _last_poll_state'
              /\ _last_poll_state'[id] = Observed(id)]_vars

\* The write operation of request r makes one more attempt.
NextAttempt(r) ==
    /\ inflight' = Replace(r, [r EXCEPT !.attempt = @ + 1])
    /\ UNCHANGED queues
    /\ last' = EnvStep

\* C17: an attempt of add_issue_comment or update_issue_state that fails with
\* a network error or a 5xx is followed by another attempt when it is the
\* first or the second, and ends the operation with the error raised to the
\* caller when it is the third; no attempt has a number above 3.
C17_ThreeAttempts ==
    [][/\ \A r \in DOMAIN inflight, resp \in {"5xx", "neterr"} :
            (r.kind = "publish"
             /\ (PublishComment(r, resp) \/ PublishState(r, resp))) =>
                IF r.attempt < 3
                THEN NextAttempt(r)
                ELSE /\ r.attempt = 3
                     /\ inflight' = Resume(r)
                     /\ r.phase = "comment" =>
                            last' = Event("publish", r.id, "500", "comment_raise")
       /\ \A r \in DOMAIN inflight' :
            r.kind = "publish" => r.attempt \in 1..3]_vars

C17_Witness ==
    /\ last = Event("publish", "T1", "500", "comment_raise")
    /\ Suspended = 0

\* C18: an attempt of a write operation answered 4xx ends the operation: no
\* attempt follows, and the caller gets False, not an exception (publish
\* answers the 500 of "if not success" for the comment, and goes on to the
\* removal for the state update).
C18_ClientErrorTerminal ==
    [][\A r \in DOMAIN inflight :
          (r.kind = "publish"
           /\ (PublishComment(r, "4xx") \/ PublishState(r, "4xx"))) =>
              /\ inflight' = Resume(r)
              /\ r.phase = "comment" =>
                     /\ last' = Event("publish", r.id, "500", "comment_false")
                     /\ UNCHANGED queues
              /\ r.phase = "state" =>
                     /\ last'.op = "publish"
                     /\ last'.detail \in {"state_updated=True", "KeyError"}]_vars

C18_Witness ==
    /\ last = Event("publish", "T1", "500", "comment_false")
    /\ InCompleted("T1")

\* C19: a timed-out attempt of a write operation, when it is the first or the
\* second, is followed by another attempt, as a network error is.
C19_TimeoutRetried ==
    [][\A r \in DOMAIN inflight, resp \in {"timeout", "total_timeout"} :
          (r.kind = "publish"
           /\ r.attempt < 3
           /\ (PublishComment(r, resp) \/ PublishState(r, resp))) =>
              NextAttempt(r)]_vars

\* C20: a tick of the completion loop that reads the non-empty completion
\* file of an Active ticket completes the ticket with the file's content as
\* summary and leaves no completion file for it.
C20_TickConsumesArtifact ==
    [][\A id \in DOMAIN active_sessions, fault \in [Tickets -> Faults] :
          (/\ files[id] # NoFile
           /\ Strip(files[id]) # ""
           /\ fault[id] # "read_text"
           /\ last' = EnvStep
           /\ pending_tickets' = pending_tickets
           /\ inflight' = inflight
           /\ WatcherTick(fault)) =>
              /\ CompletedAs(id, Strip(files[id]))
              /\ files'[id] = NoFile]_vars

\* C25: a successful approval gets a session id that no entry of Active or
\* Completed, written by an earlier approval, carries.
C25_UniqueSessionIds ==
    [][\A r \in DOMAIN inflight :
          (/\ r.kind = "approve"
           /\ last' = Event("approve", r.id, "ok", "-")
           /\ ApproveReturn(r)) =>
              /\ \A id \in DOMAIN active_sessions :
                     active_sessions[id].session_id # r.session_id
              /\ \A id \in DOMAIN completed_tickets :
                     completed_tickets[id].session_id # r.session_id]_vars

\* The queues an id is in, now and after the step.
Membership(id) == <<InPending(id), InActive(id), InCompleted(id)>>
MembershipAfter(id) ==
    <<id \in DOMAIN pending_tickets', id \in DOMAIN active_sessions',
      id \in DOMAIN completed_tickets'>>
AllowedTransitions ==
    { <<<<FALSE, FALSE, FALSE>>, <<TRUE, FALSE, FALSE>>>>,
      <<<<TRUE, FALSE, FALSE>>, <<FALSE, TRUE, FALSE>>>>,
      <<<<FALSE, TRUE, FALSE>>, <<FALSE, FALSE, TRUE>>>>,
      <<<<FALSE, FALSE, TRUE>>, <<FALSE, FALSE, FALSE>>>>,
      <<<<TRUE, FALSE, FALSE>>, <<FALSE, FALSE, FALSE>>>> }

\* C28: every change of the queues an id is in is Unseen->Pending,
\* Pending->Active, Active->Completed, Completed->removed or Pending->removed.
C28_AllowedTransitions ==
    [][\A id \in Tickets :
          Membership(id) # MembershipAfter(id) =>
              <<Membership(id), MembershipAfter(id)>> \in AllowedTransitions]_vars

\* C29: every approve or publish call that ends, whatever its clients
\* raised, answers its caller with a success or with an HTTP 500.
C29_NoRawException ==
    [][\A r \in DOMAIN inflight :
          (/\ r.kind \in {"approve", "publish"}
           /\ inflight' = Resume(r)) =>
              /\ last'.op = r.kind
              /\ last'.id = r.id
              /\ last'.outcome \in {"ok", "500"}]_vars

C29_Witness ==
    /\ last = Event("publish", "T1", "500", "lookup_raise")
    /\ InCompleted("T1")

\* C30: publish on an id that is not in Completed answers 404, suspends no
\* call to the tracker and changes no queue.
C30_PublishNotCompleted ==
    [][\A id \in Tickets :
          (~InCompleted(id) /\ (PublishNotFound(id) \/ PublishCall(id))) =>
              /\ last' = Event("publish", id, "404", "-")
              /\ UNCHANGED <<queues, inflight>>]_vars

C30_Witness ==
    /\ last = Event("publish", "T1", "404", "-")
    /\ InActive("T1")
    /\ ~InCompleted("T1")

ApproveSuspended(id) ==
    \E r \in DOMAIN inflight : r.kind = "approve" /\ r.id = id
QueuesHoldingAfter(id) ==
    Cardinality({i \in 1..3 : MembershipAfter(id)[i]})

\* C26: a poll that reports a trigger for an id while an approve of the id is
\* suspended in create_session admits nothing (the id stays in the queues it
\* was in, its Pending entry as it was), and when the approve ends the id is
\* in exactly one queue: Active after a success, still Pending after a
\* failure that found it Pending.
C26_RetriggerDuringApprove ==
    [][\A id \in Tickets :
          /\ (/\ ApproveSuspended(id)
              /\ last'.op = "poll"
              /\ TriggerOf(triggered_tickets', id) # NoTrigger) =>
                 /\ MembershipAfter(id) = Membership(id)
                 /\ InPending(id) => pending_tickets'[id] = pending_tickets[id]
          /\ \A r \in DOMAIN inflight :
                (/\ r.kind = "approve"
                 /\ r.id = id
                 /\ last'.op = "approve"
                 /\ inflight' = Resume(r)) =>
                    /\ QueuesHoldingAfter(id) = 1
                    /\ last'.outcome = "ok" => id \in DOMAIN active_sessions'
                    /\ (last'.outcome # "ok" /\ InPending(id)) =>
                           id \in DOMAIN pending_tickets']_vars

\* A trigger for T1 has just been polled while an approve of T1 is suspended.
C26_Witness ==
    /\ ApproveSuspended("T1")
    /\ last.op = "poll"
    /\ TriggerOf(triggered_tickets, "T1") = "status_change"
    /\ InPending("T1")
    /\ pending_tickets["T1"].data = "new_ticket"

\* C27: a step writes an Active entry for an id only as the resumption of an
\* approve of that id whose create_session call the session service answered
\* with a 2xx.
C27_ActiveNeedsSession ==
    [][\A id \in Tickets :
          (/\ id \in DOMAIN active_sessions'
           /\ IF id \in DOMAIN active_sessions
              THEN active_sessions'[id] # active_sessions[id] ELSE TRUE) =>
              /\ \E r \in DOMAIN inflight :
                    /\ r.kind = "approve"
                    /\ r.id = id
                    /\ inflight' = Resume(r)
              /\ last'.op = "approve"
              /\ last'.detail \in {"2xx", "KeyError"}]_vars

\* C21: a tick of the completion loop that finds an empty or whitespace-only
\* completion file for an Active ticket leaves the file, calls no
\* mark_ticket_completed and leaves the ticket Active.
C21_EmptyArtifactIgnored ==
    [][\A id \in DOMAIN active_sessions, fault \in [Tickets -> Faults] :
          (/\ files[id] # NoFile
           /\ Strip(files[id]) = ""
           /\ last' = EnvStep
           /\ pending_tickets' = pending_tickets
           /\ inflight' = inflight
           /\ WatcherTick(fault)) =>
              /\ files'[id] = files[id]
              /\ id \in DOMAIN active_sessions'
              /\ active_sessions'[id] = active_sessions[id]
              /\ MembershipAfter(id) = Membership(id)]_vars

\* C22: a tick deletes the file of a ticket only when it has completed the
\* ticket, and a file that a tick has read and failed to delete takes its
\* ticket id through no further change of queue.
C22_LeftoverHarmless ==
    [][\A id \in Tickets, fault \in [Tickets -> Faults] :
          (/\ last' = EnvStep
           /\ pending_tickets' = pending_tickets
           /\ inflight' = inflight
           /\ WatcherTick(fault)) =>
              /\ (files[id] # NoFile /\ files'[id] = NoFile) =>
                     (InActive(id) /\ id \in DOMAIN completed_tickets')
              /\ id \in leftover => MembershipAfter(id) = Membership(id)]_vars

\* C23: an exception in an iteration of the trigger-poll loop does not end
\* the loop: the loop backs off, and while the orchestrator is running it
\* comes to call poll_for_triggers again.
C23_PollLoopSurvivesErrors ==
    /\ []((last.op = "poll_loop" /\ last.outcome = "raise") =>
              _poll_task = "backoff")
    /\ (last.op = "poll_loop" /\ last.outcome = "raise") ~>
           (\/ last = Event("poll_loop", "-", "request", "backoff")
            \/ ~running)

C23_Witness ==
    /\ running
    /\ _poll_task = "polling"
    /\ last = Event("poll_loop", "-", "request", "backoff")

\* C24: stop() closes a client's session only when both loop tasks have
\* terminated, and the trigger-poll loop never sends a request on a session
\* stop() has closed.
C24_CloseAfterLoops ==
    [][/\ \A c \in Clients :
             (_session[c] = "open" /\ _session'[c] = "closed") =>
                 Terminated(_poll_task) /\ Terminated(_completion_task)
       /\ last'.op = "poll_loop" => last'.detail # "closed"]_vars

C24_Witness ==
    /\ last = Event("stop", "-", "close_plane", "-")
    /\ _session["plane"] = "closed"
    /\ _poll_task = "cancelled"
    /\ _completion_task = "cancelled"

\* C31: a write operation whose first attempt, or first two attempts, met a
\* network error or a 5xx and whose next attempt gets a success response
\* returns True to its caller; a first or second attempt that meets a
\* network error or a 5xx is followed by another attempt.
C31_TransientAbsorbed ==
    [][\A r \in DOMAIN inflight, resp \in {"2xx", "5xx", "neterr"} :
          (/\ r.kind = "write"
           /\ \A i \in 1..Len(r.seen) : r.seen[i] \in {"5xx", "neterr"}
           /\ WriteAnswer(r, resp)) =>
              IF resp = "2xx"
              THEN last' = Event("write", "-", "True", r.seen)
              ELSE Len(r.seen) + 1 < MaxAttempts =>
                       /\ inflight' = Replace(r, [r EXCEPT
                                                    !.seen = Append(@, resp)])
                       /\ last' = EnvStep]_vars

C31_Witness ==
    /\ last.op = "write"
    /\ last.outcome = "True"
    /\ last.detail \in {<<"5xx", "neterr">>, <<"neterr", "5xx">>}

\* C39: a publish that succeeds reports state_updated as true only when
\* update_issue_state returned True, and as false when it returned False or
\* raised.
C39_StateUpdatedTruthful ==
    [][\A r \in DOMAIN inflight, resp \in Responses :
          (/\ last'.op = "publish"
           /\ last'.outcome = "ok"
           /\ r.kind = "publish"
           /\ r.phase = "state"
           /\ PublishState(r, resp)) =>
              (last'.detail = "state_updated=True" <=>
                   WriteAttempt(r.attempt, resp) = "True")]_vars

\* C35: in every reachable state every entry of active_sessions has a
\* session_id and a started_at, and every entry of completed_tickets has a
\* session_id, a started_at, a summary and a completed_at.
C35_EntriesCarryFields ==
    /\ \A id \in DOMAIN active_sessions :
          {"session_id", "started_at"} \subseteq DOMAIN active_sessions[id]
    /\ \A id \in DOMAIN completed_tickets :
          {"session_id", "started_at", "summary", "completed_at"}
              \subseteq DOMAIN completed_tickets[id]

C35_Witness ==
    /\ last.op = "mark_completed"
    /\ last.id \in DOMAIN completed_tickets
    /\ completed_tickets[last.id].summary = last.detail

\* C36: a poll that observes an issue with the state and the updated_at the
\* poll before it observed emits no trigger for the issue.
C36_UnchangedIssueNoTrigger ==
    [][\A listed \in Listings, id \in DOMAIN observed :
          (/\ InList(listed, id)
           /\ observed[id].state = issues[id].state
           /\ observed[id].updated_at = issues[id].updated_at
           /\ last'.op = "poll"
           /\ PollTriggers(listed)) =>
              TriggerOf(triggered_tickets', id) = NoTrigger]_vars

\* C38: a tick of the completion loop does not complete an Active ticket on
\* account of a completion file that was there when the ticket was approved.
C38_OnlyFreshArtifact ==
    [][\A id \in Tickets, fault \in [Tickets -> Faults] :
          (/\ id \in predates
           /\ id \in DOMAIN active_sessions
           /\ last' = EnvStep
           /\ pending_tickets' = pending_tickets
           /\ inflight' = inflight
           /\ WatcherTick(fault)) =>
              /\ id \in DOMAIN active_sessions'
              /\ completed_tickets' = completed_tickets]_vars

\* C34: the delay the trigger-poll loop sleeps after an exception is one
\* fixed interval, longer than the interval it sleeps between two polls.
C34_BackoffLonger ==
    [][(last'.op = "poll_loop" /\ last'.outcome = "raise") =>
           /\ poll_sleep' = BackoffDelay
           /\ poll_sleep' > poll_interval]_vars

\* C37: when an iteration of the poll loop ends in an exception, every
\* ticket poll_for_triggers had classified as triggered (its snapshot
\* advanced) and that is in no queue has been admitted to Pending.
C37_NoTriggerLost ==
    [][(last'.op = "poll_loop" /\ last'.outcome = "raise") =>
           \A i \in DOMAIN poll_call.triggered :
               ~Queued(poll_call.triggered[i].id) =>
                   poll_call.triggered[i].id \in DOMAIN pending_tickets']_vars

\* C33: a poll task that stop() cancels while it is suspended inside
\* poll_for_triggers leaves that suspension by finishing its iteration: the
\* triggers it had classified are in a queue and the task is in its sleep.
C33_CancelDrains ==
    [][(/\ _poll_task = "polling"
        /\ "poll" \in must_cancel
        /\ _poll_task' # _poll_task) =>
           /\ _poll_task' = "sleeping"
           /\ \A i \in DOMAIN poll_call.triggered :
                  poll_call.triggered[i].id \in
                      DOMAIN pending_tickets' \cup DOMAIN active_sessions'
                          \cup DOMAIN completed_tickets']_vars

\* C40: no call of stop() raises, and once the call of the finally block
\* and those of the signal handler have all returned, both loop tasks are
\* terminated and the _session of both clients is None.
C40_StopTwice ==
    /\ \A c \in StopCalls : stop_calls[c] # "raised"
    /\ (\A c \in StopCalls : stop_calls[c] = "returned") =>
           /\ Terminated(_poll_task)
           /\ Terminated(_completion_task)
           /\ _session = [c \in Clients |-> "None"]

\* Every call of stop() has returned, the last of them a moment ago, after
\* the tasks were cancelled by one of them.
C40_Witness ==
    /\ \A c \in StopCalls : stop_calls[c] = "returned"
    /\ last = Event("stop", "-", "returned", "-")
    /\ _poll_task = "cancelled"
    /\ _completion_task = "cancelled"

=============================================================================
